---- MODULE Spec2Model ----
(***************************************************************************)
(* The shell interpretation engine of Lindows (src/terminal_core.py) and   *)
(* the collaborators that touch session state (cd, history, alias,         *)
(* unalias, export, unset, echo, pwd, exit).                               *)
(*                                                                         *)
(* Text is a sequence of atoms.  An atom is either one of the characters   *)
(* the code inspects (space, newline, | > ' " # = ) or a run of ordinary   *)
(* characters such as "cd" or "-la"; a command line, a word and an output  *)
(* text are all sequences of atoms and concatenation is \o.                *)
(*                                                                         *)
(* A path string is a record [abs, segs]: abs says whether the string is   *)
(* absolute, segs are its components.                                      *)
(***************************************************************************)
EXTENDS Integers, Sequences, FiniteSets, TLC

VARIABLES cwd, procCwd, environ, history, aliases, running, files,
          lastLine, output, trace, escaped, before, host

vars == <<cwd, procCwd, environ, history, aliases, running, files,
          lastLine, output, trace, escaped, before, host>>

----------------------------------------------------------------------------
(* Python string primitives on atom sequences                              *)

Whitespace == {" ", "\n"}

QuoteChars == {"'", "\""}

Min(a, b) == IF a < b THEN a ELSE b

Max(a, b) == IF a > b THEN a ELSE b

\* a local name: Op applied to the value v
Bind(v, Op(_)) == Op(v)

FirstIn(S) == CHOOSE i \in S : \A j \in S : i <= j

LastIn(S) == CHOOSE i \in S : \A j \in S : i >= j

\* str.lstrip()
lstrip(s) ==
    Bind({i \in 1..Len(s) : s[i] \notin Whitespace}, LAMBDA nonws :
        IF nonws = {} THEN <<>> ELSE SubSeq(s, FirstIn(nonws), Len(s)))

\* str.rstrip()
rstrip(s) ==
    Bind({i \in 1..Len(s) : s[i] \notin Whitespace}, LAMBDA nonws :
        IF nonws = {} THEN <<>> ELSE SubSeq(s, 1, LastIn(nonws)))

\* str.strip()
strip(s) == lstrip(rstrip(s))

\* sub in s
Contains(s, sub) ==
    \E i \in 1..(Len(s) - Len(sub) + 1) : SubSeq(s, i, i + Len(sub) - 1) = sub

\* s.startswith(sub)
StartsWith(s, sub) == Len(s) >= Len(sub) /\ SubSeq(s, 1, Len(sub)) = sub

RECURSIVE SplitFrom(_, _, _, _)
SplitFrom(s, sep, i, cur) ==
    IF i > Len(s) THEN <<cur>>
    ELSE IF i + Len(sep) - 1 <= Len(s) /\ SubSeq(s, i, i + Len(sep) - 1) = sep
         THEN <<cur>> \o SplitFrom(s, sep, i + Len(sep), <<>>)
         ELSE SplitFrom(s, sep, i + 1, Append(cur, s[i]))

\* s.split(sep) for a non-empty separator: left to right, non-overlapping
split(s, sep) == SplitFrom(s, sep, 1, <<>>)

RECURSIVE SplitWsFrom(_, _, _)
SplitWsFrom(s, i, cur) ==
    IF i > Len(s) THEN (IF cur = <<>> THEN <<>> ELSE <<cur>>)
    ELSE IF s[i] \in Whitespace
         THEN (IF cur = <<>> THEN <<>> ELSE <<cur>>) \o SplitWsFrom(s, i + 1, <<>>)
         ELSE SplitWsFrom(s, i + 1, Append(cur, s[i]))

\* s.split(): runs of whitespace separate, no empty strings
split_ws(s) == SplitWsFrom(s, 1, <<>>)

\* s.split(None, 1)
split_first(s) ==
    Bind(lstrip(s), LAMBDA t :
    Bind({i \in 1..Len(t) : t[i] \in Whitespace}, LAMBDA ws :
        IF t = <<>> THEN <<>>
        ELSE IF ws = {} THEN <<t>>
        ELSE Bind(lstrip(SubSeq(t, FirstIn(ws), Len(t))), LAMBDA rest :
                 IF rest = <<>> THEN <<SubSeq(t, 1, FirstIn(ws) - 1)>>
                 ELSE <<SubSeq(t, 1, FirstIn(ws) - 1), rest>>)))

RECURSIVE JoinFrom(_, _, _)
JoinFrom(parts, sep, i) ==
    IF i > Len(parts) THEN <<>>
    ELSE IF i = Len(parts) THEN parts[i]
    ELSE parts[i] \o sep \o JoinFrom(parts, sep, i + 1)

\* sep.join(parts)
join(sep, parts) == JoinFrom(parts, sep, 1)

RECURSIVE ShlexFrom(_, _, _, _, _)
ShlexFrom(s, i, cur, inTok, q) ==
    IF i > Len(s)
    THEN IF q # "" THEN [ok |-> FALSE, tokens |-> <<>>]
         ELSE [ok |-> TRUE, tokens |-> IF inTok THEN <<cur>> ELSE <<>>]
    ELSE IF q # ""
         THEN IF s[i] = q THEN ShlexFrom(s, i + 1, cur, TRUE, "")
              ELSE ShlexFrom(s, i + 1, Append(cur, s[i]), TRUE, q)
         ELSE IF s[i] \in Whitespace
              THEN Bind(ShlexFrom(s, i + 1, <<>>, FALSE, ""), LAMBDA r :
                       IF inTok /\ r.ok
                       THEN [ok |-> TRUE, tokens |-> <<cur>> \o r.tokens]
                       ELSE r)
         ELSE IF s[i] \in QuoteChars THEN ShlexFrom(s, i + 1, cur, TRUE, s[i])
         ELSE ShlexFrom(s, i + 1, Append(cur, s[i]), TRUE, "")

\* shlex.split(s): ok = FALSE stands for ValueError (no closing quotation)
shlex_split(s) == ShlexFrom(s, 1, <<>>, FALSE, "")

----------------------------------------------------------------------------
(* Paths and the host file system                                          *)
(*                                                                         *)
(* The host has one drive.  Dirs are the directories that exist (absolute  *)
(* component lists), NoAccess those that exist but cannot be entered or    *)
(* written into; files maps the regular files to their content.            *)

DriveLetters == {"c", "C"}

Path(segs) == [abs |-> TRUE, segs |-> segs]

HOME == Path(<<"home">>)

Dirs == { <<>>, <<"home">>, <<"home", "docs">>, <<"home", "docs", "docs">>,
          <<"vault">> }

NoAccess == { <<"vault">> }

RECURSIVE Flat(_)
\* the characters of a word as one name
Flat(w) == IF w = <<>> THEN "" ELSE Head(w) \o Flat(Tail(w))

\* the components parts[k..] of a path split on its separator
SegsFrom(parts, k) == [i \in 1..(Len(parts) - k + 1) |-> Flat(parts[i + k - 1])]

\* a native path string read component by component
native_parse(w) ==
    IF w # <<>> /\ w[1] = "/"
    THEN [abs |-> TRUE, segs |-> SegsFrom(split(w, <<"/">>), 2)]
    ELSE [abs |-> FALSE, segs |-> SegsFrom(split(w, <<"/">>), 1)]

\* os.path.isabs
isabs(p) == p.abs

\* os.path.join(a, b)
path_join(a, b) == IF b.abs THEN b ELSE [abs |-> a.abs, segs |-> a.segs \o b.segs]

RECURSIVE NormSegs(_, _, _)
NormSegs(segs, acc, abs) ==
    IF segs = <<>> THEN acc
    ELSE IF Head(segs) = "" \/ Head(segs) = "." THEN NormSegs(Tail(segs), acc, abs)
    ELSE IF Head(segs) # ".." THEN NormSegs(Tail(segs), Append(acc, Head(segs)), abs)
    ELSE IF acc # <<>> /\ acc[Len(acc)] # ".."
         THEN NormSegs(Tail(segs), SubSeq(acc, 1, Len(acc) - 1), abs)
    ELSE IF abs THEN NormSegs(Tail(segs), acc, abs)
    ELSE NormSegs(Tail(segs), Append(acc, ".."), abs)

\* os.path.normpath
normpath(p) == [abs |-> p.abs, segs |-> NormSegs(p.segs, <<>>, p.abs)]

\* the place a path string names for the host, given the process directory
Locate(p, pcwd) == normpath(path_join(pcwd, p)).segs

\* os.path.exists
exists(p, pcwd, fs) == Locate(p, pcwd) \in Dirs \cup DOMAIN fs

\* os.path.isdir
isdir(p, pcwd) == Locate(p, pcwd) \in Dirs

\* os.chdir succeeds
can_chdir(p, pcwd) == Locate(p, pcwd) \in Dirs \ NoAccess

\* open(path, 'w' or 'a') succeeds
can_open(p, pcwd) ==
    Bind(Locate(p, pcwd), LAMBDA loc :
        /\ loc # <<>>
        /\ loc \notin Dirs
        /\ SubSeq(loc, 1, Len(loc) - 1) \in Dirs \ NoAccess)

\* the native spelling of a path string (what os.environ and `env` show)
native_text(p) ==
    (IF p.abs THEN <<"C", ":", "\\">> ELSE <<>>)
    \o join(<<"\\">>, [i \in 1..Len(p.segs) |-> <<p.segs[i]>>])

----------------------------------------------------------------------------
(* PathConverter on path strings                                           *)
(*                                                                         *)
(* A path string is text: a drive letter, ":", "\\" and "/" are atoms of   *)
(* their own, a name between separators is an atom.  os.path is ntpath.    *)

Seps == {"\\", "/"}

\* str.upper and str.lower on a drive letter
Upper(x) == IF x = "c" THEN "C" ELSE x

Lower(x) == IF x = "C" THEN "c" ELSE x

\* s.replace(old, new) for one-character old and new
replace(s, old, new) == [i \in 1..Len(s) |-> IF s[i] = old THEN new ELSE s[i]]

\* ntpath.splitdrive, for paths that are not UNC paths
splitdrive(p) ==
    IF Len(p) >= 2 /\ Len(p[1]) = 1 /\ p[2] = ":"
    THEN [drive |-> SubSeq(p, 1, 2), path |-> SubSeq(p, 3, Len(p))]
    ELSE [drive |-> <<>>, path |-> p]

\* ntpath.isabs
ntpath_isabs(s) ==
    Bind(splitdrive(s).path, LAMBDA rest : rest # <<>> /\ rest[1] \in Seps)

\* the path part of ntpath.join(a, p) when p is not rooted and may be added
JoinedPath(a_path, p_path) ==
    IF a_path # <<>> /\ a_path[Len(a_path)] \notin Seps
    THEN a_path \o <<"\\">> \o p_path
    ELSE a_path \o p_path

\* ntpath.join(a, p)
ntpath_join(a, p) ==
    Bind(splitdrive(a), LAMBDA ra :
    Bind(splitdrive(p), LAMBDA rp :
        IF rp.path # <<>> /\ rp.path[1] \in Seps
        THEN (IF rp.drive # <<>> \/ ra.drive = <<>> THEN rp.drive ELSE ra.drive)
             \o rp.path
        ELSE IF rp.drive # <<>> /\ rp.drive # ra.drive
        THEN IF ra.drive = <<>> \/ Lower(rp.drive[1]) # Lower(ra.drive[1])
             THEN p
             ELSE rp.drive \o JoinedPath(ra.path, rp.path)
        ELSE ra.drive \o JoinedPath(ra.path, rp.path)))

\* the components of a path between its separators, one atom each
Components(path) ==
    Bind(split(path, <<"\\">>), LAMBDA parts :
        [i \in 1..Len(parts) |-> Flat(parts[i])])

\* ntpath.normpath
ntpath_normpath(p) ==
    Bind(splitdrive(replace(p, "/", "\\")), LAMBDA r :
    Bind(r.path # <<>> /\ r.path[1] = "\\", LAMBDA rooted :
    Bind(NormSegs(Components(r.path), <<>>, rooted), LAMBDA comps :
        IF r.drive = <<>> /\ ~rooted /\ comps = <<>> THEN <<".">>
        ELSE r.drive \o (IF rooted THEN <<"\\">> ELSE <<>>)
             \o join(<<"\\">>, [i \in 1..Len(comps) |-> <<comps[i]>>]))))

\* os.path.expanduser('~') as text
HomeText == <<"C", ":", "\\">> \o join(<<"\\">>, [i \in 1..Len(HOME.segs) |-> <<HOME.segs[i]>>])

\* the drive pattern with the letter left in the case it was typed in
DriveForm_KeepsCase(s) ==
    IF Len(s) >= 2 /\ s[1] = "/" /\ s[2] \in DriveLetters /\ (Len(s) = 2 \/ s[3] = "/")
    THEN <<s[2], ":">> \o SubSeq(s, 3, Len(s))
    ELSE s

\* re.match(r'^/([a-zA-Z])(/.*)?$') and its replacement
DriveForm(s) ==
    IF Len(s) >= 2 /\ s[1] = "/" /\ s[2] \in DriveLetters /\ (Len(s) = 2 \/ s[3] = "/")
    THEN <<Upper(s[2]), ":">> \o SubSeq(s, 3, Len(s))
    ELSE s

\* re.match(r'^/mnt/([a-zA-Z])(/.*)?$') and its replacement
MntForm(s) ==
    IF Len(s) >= 4 /\ SubSeq(s, 1, 3) = <<"/", "mnt", "/">> /\ s[4] \in DriveLetters
       /\ (Len(s) = 4 \/ s[5] = "/")
    THEN <<Upper(s[4]), ":">> \o SubSeq(s, 5, Len(s))
    ELSE s

\* PathConverter.to_windows on text; getcwd is os.getcwd()
to_windows_text(linux_path, getcwd) ==
    IF linux_path = <<>> THEN getcwd
    ELSE Bind(replace(MntForm(DriveForm(IF linux_path[1] = "~"
                                        THEN HomeText \o Tail(linux_path)
                                        ELSE linux_path)), "/", "\\"),
              LAMBDA windows_path :
                 ntpath_normpath(IF ~ntpath_isabs(windows_path)
                                 THEN ntpath_join(getcwd, windows_path)
                                 ELSE windows_path))

\* PathConverter.to_linux on text
to_linux_text(windows_path, getcwd) ==
    IF windows_path = <<>> THEN replace(getcwd, "\\", "/")
    ELSE replace(IF Len(windows_path) >= 3 /\ windows_path[1] \in DriveLetters
                    /\ windows_path[2] = ":" /\ windows_path[3] = "\\"
                 THEN <<"/", Lower(windows_path[1]), "/">>
                      \o SubSeq(windows_path, 4, Len(windows_path))
                 ELSE windows_path, "\\", "/")

\* the path string a text spells: the drive letter names the one drive
PathOf(text) ==
    Bind(splitdrive(replace(text, "/", "\\")), LAMBDA r :
        [abs |-> r.path # <<>> /\ r.path[1] = "\\",
         segs |-> SelectSeq(Components(r.path), LAMBDA c : c # "")])

\* PathConverter.to_windows; pcwd is os.getcwd()
to_windows(linux_path, pcwd) == PathOf(to_windows_text(linux_path, native_text(pcwd)))

\* PathConverter.to_linux of a path string the session holds
to_linux(windows_path) ==
    IF native_text(windows_path) = <<>> THEN <<".">>
    ELSE to_linux_text(native_text(windows_path), <<>>)

----------------------------------------------------------------------------
(* Output texts                                                            *)

\* ColorOutput.error
error(message) == <<"<red>", "X ">> \o message \o <<"<reset>">>

\* ColorOutput.info
info(message) == <<"<cyan>", "i ">> \o message \o <<"<reset>">>


----------------------------------------------------------------------------
(* Session state and the collaborators that read or change it              *)
(*                                                                         *)
(* A handler returns [out, raised, exc] and, when it changes state, the    *)
(* changed parts.  environ maps a variable name to the path string its     *)
(* value spells.                                                           *)

EnvKeys == <<"OLDPWD", "X">>

EnvSet(env, key, value) ==
    [k \in DOMAIN env \cup {key} |-> IF k = key THEN value ELSE env[k]]

EnvDel(env, key) == [k \in DOMAIN env \ {key} |-> env[k]]

\* the path cd is asked to enter, before normpath
CdPath(args, c, env, pcwd) ==
    IF args = <<>> THEN HOME
    ELSE IF args[1] = <<"-">>
         THEN (IF "OLDPWD" \in DOMAIN env THEN env["OLDPWD"] ELSE c)
    ELSE Bind(to_windows(args[1], pcwd), LAMBDA w :
             IF ~isabs(w) THEN path_join(c, w) ELSE w)

\* cd with the OLDPWD slot written before the target is looked at
cd_RecordsFirst(args, c, env, pcwd, fs) ==
    Bind(normpath(CdPath(args, c, env, pcwd)), LAMBDA new_path :
        [new_cwd |-> IF isdir(new_path, pcwd) THEN new_path ELSE c,
         env |-> EnvSet(env, "OLDPWD", c), raised |-> FALSE, exc |-> <<>>,
         out |-> IF isdir(new_path, pcwd) THEN <<>>
                 ELSE error(<<"cd", ": ", "No such file or directory">>)])

\* FileCommands.cd: (new_cwd, message), the OLDPWD slot, or IndexError
cd(args, c, env, pcwd, fs) ==
    Bind(normpath(CdPath(args, c, env, pcwd)), LAMBDA new_path :
        IF ~exists(new_path, pcwd, fs)
        THEN [new_cwd |-> c, env |-> env, raised |-> FALSE, exc |-> <<>>,
              out |-> error(<<"cd", ": ">> \o (IF args # <<>> THEN args[1] ELSE <<"~">>)
                            \o <<": ", "No such file or directory">>)]
        ELSE IF ~isdir(new_path, pcwd)
        THEN IF args = <<>>
             THEN [new_cwd |-> c, env |-> env, raised |-> TRUE,
                   exc |-> <<"list index out of range">>, out |-> <<>>]
             ELSE [new_cwd |-> c, env |-> env, raised |-> FALSE, exc |-> <<>>,
                   out |-> error(<<"cd", ": ">> \o args[1] \o <<": ", "Not a directory">>)]
        ELSE [new_cwd |-> new_path, env |-> EnvSet(env, "OLDPWD", c),
              raised |-> FALSE, exc |-> <<>>, out |-> <<>>])

\* LinuxTerminal._cd
_cd(st, args) ==
    Bind(cd(args, st.cwd, st.environ, st.procCwd, st.files), LAMBDA r :
        IF r.raised
        THEN [st |-> [st EXCEPT !.environ = r.env], out |-> <<>>, raised |-> TRUE,
              exc |-> r.exc]
        ELSE IF ~can_chdir(r.new_cwd, st.procCwd)
        THEN [st |-> [st EXCEPT !.environ = r.env, !.cwd = r.new_cwd],
              out |-> <<>>, raised |-> TRUE, exc |-> <<"cannot change directory">>]
        ELSE [st |-> [st EXCEPT !.environ = r.env, !.cwd = r.new_cwd,
                                !.procCwd = Path(Locate(r.new_cwd, st.procCwd))],
              out |-> r.out, raised |-> FALSE, exc |-> <<>>])

\* _exit without the assignment to running
_exit_Stays(st, args) ==
    [st |-> st, out |-> info(<<"Goodbye!">>), raised |-> FALSE, exc |-> <<>>]

\* LinuxTerminal._exit
_exit(st, args) ==
    [st |-> [st EXCEPT !.running = FALSE], out |-> info(<<"Goodbye!">>),
     raised |-> FALSE, exc |-> <<>>]

MaxCount == 12

\* int(word) succeeds
IsInt(w) == Len(w) = 1 /\ \E n \in (0 - MaxCount)..MaxCount : ToString(n) = w[1]

\* int(word)
IntOf(w) == CHOOSE n \in (0 - MaxCount)..MaxCount : ToString(n) = w[1]

\* f" {i:4d}  {cmd}"
HistoryLine(i, cmd) ==
    <<" ">> \o [k \in 1..(4 - Len(ToString(i))) |-> " "] \o <<ToString(i)>>
    \o <<" ", " ">> \o cmd

DefaultCount == 10

\* the start computed one entry too early
HistoryStart_OneMore(command_history, count) ==
    Max(0, Len(command_history) - count - 1)

\* the first entry SystemCommands.history shows: max(0, len - count)
HistoryStart(command_history, count) == Max(0, Len(command_history) - count)

\* SystemCommands.history
History(args, command_history) ==
    Bind(HistoryStart(command_history,
                      IF args # <<>> /\ IsInt(args[1]) THEN IntOf(args[1])
                      ELSE DefaultCount),
         LAMBDA start :
            join(<<"\n">>, [k \in 1..(Len(command_history) - start) |->
                               HistoryLine(start + k, command_history[start + k])]))

AliasIndex(al, name) == {i \in 1..Len(al) : al[i].name = name}

\* name in aliases
HasAlias(al, name) == AliasIndex(al, name) # {}

\* aliases[name]
AliasValue(al, name) == al[CHOOSE i \in AliasIndex(al, name) : TRUE].value

\* aliases[name] = value with the entry moved to the end
AliasSet_Moves(al, name, value) ==
    Append(SelectSeq(al, LAMBDA e : e.name # name), [name |-> name, value |-> value])

\* aliases[name] = value (a dict keeps the position of an existing key)
AliasSet(al, name, value) ==
    IF HasAlias(al, name)
    THEN [i \in 1..Len(al) |-> IF al[i].name = name
                               THEN [name |-> name, value |-> value] ELSE al[i]]
    ELSE Append(al, [name |-> name, value |-> value])

\* del aliases[name]
AliasDel(al, name) == SelectSeq(al, LAMBDA e : e.name # name)

\* value.strip("'\"")
StripQuotes(s) ==
    Bind({i \in 1..Len(s) : s[i] \notin QuoteChars}, LAMBDA keep :
        IF keep = {} THEN <<>> ELSE SubSeq(s, FirstIn(keep), LastIn(keep)))

\* f"alias {k}='{v}'"
AliasLine(e) == <<"alias", " ">> \o e.name \o <<"=", "'">> \o e.value \o <<"'">>

\* name, value = arg.split('=', 1)
KeyOf(arg) == split(arg, <<"=">>)[1]

ValueOf(arg) == join(<<"=">>, Tail(split(arg, <<"=">>)))

RECURSIVE AliasLoop(_, _, _)
AliasLoop(args, i, al) ==
    IF i > Len(args) THEN [aliases |-> al, out |-> <<>>]
    ELSE IF Contains(args[i], <<"=">>)
         THEN AliasLoop(args, i + 1,
                        AliasSet(al, KeyOf(args[i]), StripQuotes(ValueOf(args[i]))))
         ELSE IF HasAlias(al, args[i])
              THEN [aliases |-> al,
                    out |-> AliasLine([name |-> args[i], value |-> AliasValue(al, args[i])])]
              ELSE AliasLoop(args, i + 1, al)

\* SystemCommands.alias
Alias(args, al) ==
    IF args = <<>>
    THEN [aliases |-> al,
          out |-> join(<<"\n">>, [i \in 1..Len(al) |-> AliasLine(al[i])])]
    ELSE AliasLoop(args, 1, al)

RECURSIVE Unalias(_, _)
\* SystemCommands.unalias
Unalias(args, al) ==
    IF args = <<>> THEN al ELSE Unalias(Tail(args), AliasDel(al, Head(args)))

\* SystemCommands.env
Env(env) ==
    Bind(SelectSeq(EnvKeys, LAMBDA k : k \in DOMAIN env), LAMBDA keys :
        join(<<"\n">>, [i \in 1..Len(keys) |->
                           <<keys[i], "=">> \o native_text(env[keys[i]])]))

RECURSIVE ExportLoop(_, _)
ExportLoop(args, env) ==
    IF args = <<>> THEN env
    ELSE IF Contains(Head(args), <<"=">>)
         THEN ExportLoop(Tail(args),
                         EnvSet(env, Flat(KeyOf(Head(args))),
                                native_parse(ValueOf(Head(args)))))
         ELSE ExportLoop(Tail(args), env)

\* SystemCommands.export
Export(args, env) ==
    IF args = <<>> THEN [environ |-> env, out |-> Env(env)]
    ELSE [environ |-> ExportLoop(args, env), out |-> <<>>]

RECURSIVE Unset(_, _)
\* SystemCommands.unset
Unset(args, env) ==
    IF args = <<>> THEN env
    ELSE Unset(Tail(args), IF Flat(Head(args)) \in DOMAIN env
                           THEN EnvDel(env, Flat(Head(args))) ELSE env)

\* SystemCommands.echo, for words that hold no backslash and no $
Echo(args) == join(<<" ">>, SelectSeq(args, LAMBDA a : a # <<"-n">>))

\* FileCommands.pwd
Pwd(c) == to_linux(c)

----------------------------------------------------------------------------
(* The interpreter: LinuxTerminal.parse_command, execute, _handle_pipe,    *)
(* _handle_redirect, _execute_external                                     *)
(*                                                                         *)
(* orc is what the host answers during one line: whether a handler the     *)
(* model does not look inside raises, and what a host-native command       *)
(* prints.  trace records, for the line being processed, every alias       *)
(* substitution, handler call, host launch and file write, in order.       *)

\* the keys of LinuxTerminal.commands
Commands ==
    { <<n>> : n \in
      { "ls", "dir", "cd", "pwd", "mkdir", "rmdir", "rm", "cp", "mv", "touch",
        "chmod", "ln", "find", "cat", "head", "tail", "grep", "wc", "sort",
        "uniq", "cut", "tr", "sed", "awk", "diff", "clear", "echo", "date",
        "whoami", "hostname", "uname", "uptime", "ps", "top", "kill", "df",
        "du", "free", "env", "export", "unset", "which", "history", "alias",
        "unalias", "ping", "curl", "wget", "ifconfig", "ip", "netstat", "ssh",
        "scp", "nslookup", "host", "exit", "quit", "help", "man" } }

\* the aliases LinuxTerminal.__init__ seeds
DefaultAliases ==
    << [name |-> <<"ll">>,   value |-> <<"ls", " ", "-la">>],
       [name |-> <<"la">>,   value |-> <<"ls", " ", "-a">>],
       [name |-> <<"l">>,    value |-> <<"ls", " ", "-CF">>],
       [name |-> <<"..">>,   value |-> <<"cd", " ", "..">>],
       [name |-> <<"...">>,  value |-> <<"cd", " ", "..", "/", "..">>],
       [name |-> <<"cls">>,  value |-> <<"clear">>],
       [name |-> <<"md">>,   value |-> <<"mkdir">>],
       [name |-> <<"rd">>,   value |-> <<"rmdir">>],
       [name |-> <<"del">>,  value |-> <<"rm">>],
       [name |-> <<"copy">>, value |-> <<"cp">>],
       [name |-> <<"move">>, value |-> <<"mv">>],
       [name |-> <<"type">>, value |-> <<"cat">>],
       [name |-> <<"dir">>,  value |-> <<"ls", " ", "-la">>] >>

NoPath == [abs |-> FALSE, segs |-> <<>>]

Event(kind, cmd, args, line, path, ok) ==
    [kind |-> kind, cmd |-> cmd, args |-> args, line |-> line, path |-> path, ok |-> ok]

\* the first word replaced while it is an alias
AliasRewrite(text, al) ==
    Bind(split_first(strip(text)), LAMBDA parts :
        IF strip(text) # <<>> /\ HasAlias(al, parts[1])
        THEN IF Len(parts) > 1
             THEN AliasValue(al, parts[1]) \o <<" ">> \o parts[2]
             ELSE AliasValue(al, parts[1])
        ELSE text)

\* the alias pass run again over its own result
AliasExpand_Again(command_line, al) ==
    AliasRewrite(AliasRewrite(command_line, al), al)

\* the command line after the alias pass of parse_command
AliasExpand(command_line, al) ==
    Bind(split_first(strip(command_line)), LAMBDA parts :
        IF HasAlias(al, parts[1])
        THEN IF Len(parts) > 1
             THEN AliasValue(al, parts[1]) \o <<" ">> \o parts[2]
             ELSE AliasValue(al, parts[1])
        ELSE command_line)

\* the words split at blanks, quotes or not
Tokenize_Plain(command_line) == split_ws(command_line)

\* shlex.split with the fallback to str.split on ValueError
Tokenize(command_line) ==
    Bind(shlex_split(command_line), LAMBDA r :
        IF r.ok THEN r.tokens ELSE split_ws(command_line))

\* the alias substitution parse_command made, if any
Substitution(first, expanded, al) ==
    IF HasAlias(al, first) THEN <<Event("alias", first, <<>>, expanded, NoPath, TRUE)>>
    ELSE <<>>

\* LinuxTerminal.parse_command
parse_command(command_line, al) ==
    IF strip(command_line) = <<>>
    THEN [cmd |-> <<>>, args |-> <<>>, subst |-> <<>>]
    ELSE Bind(AliasExpand(command_line, al), LAMBDA expanded :
         Bind(Tokenize(expanded), LAMBDA tokens :
         Bind(Substitution(split_first(strip(command_line))[1], expanded, al),
              LAMBDA subst :
                IF tokens = <<>> THEN [cmd |-> <<>>, args |-> <<>>, subst |-> subst]
                ELSE [cmd |-> Head(tokens), args |-> Tail(tokens), subst |-> subst])))

\* a handler result that puts the session back in the home directory
Returns_Home(st, out) ==
    [st |-> [st EXCEPT !.cwd = HOME], out |-> out, raised |-> FALSE, exc |-> <<>>]

\* a handler that leaves the session as it is
Returns(st, out) == [st |-> st, out |-> out, raised |-> FALSE, exc |-> <<>>]

\* the registered handler of cmd applied to args
CallHandler(st, cmd, args, orc) ==
    IF cmd = <<"cd">> THEN _cd(st, args)
    ELSE IF cmd \in { <<"exit">>, <<"quit">> } THEN _exit(st, args)
    ELSE IF cmd = <<"history">> THEN Returns(st, History(args, st.history))
    ELSE IF cmd = <<"alias">>
         THEN Bind(Alias(args, st.aliases), LAMBDA r :
                  Returns([st EXCEPT !.aliases = r.aliases], r.out))
    ELSE IF cmd = <<"unalias">>
         THEN Returns([st EXCEPT !.aliases = Unalias(args, st.aliases)], <<>>)
    ELSE IF cmd = <<"export">>
         THEN Bind(Export(args, st.environ), LAMBDA r :
                  Returns([st EXCEPT !.environ = r.environ], r.out))
    ELSE IF cmd = <<"unset">>
         THEN Returns([st EXCEPT !.environ = Unset(args, st.environ)], <<>>)
    ELSE IF cmd = <<"env">> THEN Returns(st, Env(st.environ))
    ELSE IF cmd = <<"echo">> THEN Returns(st, Echo(args))
    ELSE IF cmd = <<"pwd">> THEN Returns(st, Pwd(st.cwd))
    ELSE IF orc.raises
         THEN [st |-> st, out |-> <<>>, raised |-> TRUE, exc |-> <<"failure">>]
         ELSE Returns(st, <<"<">> \o cmd \o <<">">>)

\* the host launch with no except clause around it
_execute_external_Uncaught(st, command_line, cmd, args, orc) ==
    Bind(can_chdir(st.cwd, st.procCwd) /\ ~orc.launchFails, LAMBDA launched :
        [st |-> [st EXCEPT !.trace =
                    Append(@, Event("host", cmd, args, command_line, st.cwd, launched))],
         out |-> IF launched THEN rstrip(orc.stdout \o orc.stderr) ELSE <<>>,
         raised |-> ~launched,
         exc |-> IF launched THEN <<>> ELSE <<"cannot launch">>])

\* LinuxTerminal._execute_external
_execute_external(st, command_line, cmd, args, orc) ==
    Bind(can_chdir(st.cwd, st.procCwd) /\ ~orc.launchFails, LAMBDA launched :
        [st |-> [st EXCEPT !.trace =
                    Append(@, Event("host", cmd, args, command_line, st.cwd, launched))],
         out |-> IF launched THEN rstrip(orc.stdout \o orc.stderr)
                 ELSE error(<<"Command failed", ": ", "cannot launch">>),
         raised |-> FALSE, exc |-> <<>>])

\* the handler call with no except clause around it
Guarded_Not(cmd, r) == r

\* the except clause ending the session as well
Guarded_Stops(cmd, r) ==
    IF r.raised
    THEN [st |-> [r.st EXCEPT !.running = FALSE], out |-> error(cmd \o <<": ">> \o r.exc),
          raised |-> FALSE, exc |-> <<>>]
    ELSE r

\* the try/except around the handler call in execute
Guarded(cmd, r) ==
    IF r.raised
    THEN [st |-> r.st, out |-> error(cmd \o <<": ">> \o r.exc), raised |-> FALSE,
          exc |-> <<>>]
    ELSE r

\* the last lines of execute: parse, then the handler or the host
Dispatch(st, command_line, orc) ==
    Bind(parse_command(command_line, st.aliases), LAMBDA pc :
        IF pc.cmd \in Commands
        THEN Guarded(pc.cmd,
                 CallHandler([st EXCEPT !.trace = @ \o pc.subst \o
                                 <<Event("handler", pc.cmd, pc.args, <<>>, NoPath, TRUE)>>],
                             pc.cmd, pc.args, orc))
        ELSE _execute_external([st EXCEPT !.trace = @ \o pc.subst],
                               command_line, pc.cmd, pc.args, orc))

\* the try block of _handle_redirect, after the command has run: the file
\* is opened with the mode given and the output and a newline written
OpenAndWrite(r, filepath, mode) ==
    Bind(Bind(to_windows(filepath, r.st.procCwd), LAMBDA w :
             IF ~isabs(w) THEN path_join(r.st.cwd, w) ELSE w), LAMBDA full_path :
    Bind(Locate(full_path, r.st.procCwd), LAMBDA loc :
    Bind(can_open(full_path, r.st.procCwd), LAMBDA opened :
    Bind([r.st EXCEPT !.trace =
             Append(@, Event("write", <<mode>>, <<>>, r.out \o <<"\n">>,
                             full_path, opened))], LAMBDA st1 :
        IF r.raised THEN r
        ELSE IF opened
        THEN [st |-> [st1 EXCEPT !.files =
                        [f \in DOMAIN @ \cup {loc} |->
                            IF f # loc THEN @[f]
                            ELSE IF loc \in DOMAIN @ /\ mode = "a"
                                 THEN @[loc] \o r.out \o <<"\n">>
                                 ELSE r.out \o <<"\n">>]],
              out |-> <<>>, raised |-> FALSE, exc |-> <<>>]
        ELSE [st |-> st1, out |-> error(<<"Redirect failed", ": ", "cannot open">>),
              raised |-> FALSE, exc |-> <<>>]))))

\* the write with the file always opened for appending
WriteOutput_Appends(r, filepath, append_mode) == OpenAndWrite(r, filepath, "a")

\* the write with the file always truncated
WriteOutput_Truncates(r, filepath, append_mode) == OpenAndWrite(r, filepath, "w")

\* mode = 'a' if append_mode else 'w', then the write
WriteOutput(r, filepath, append_mode) ==
    OpenAndWrite(r, filepath, IF append_mode THEN "a" ELSE "w")

RECURSIVE execute(_, _, _)
RECURSIVE PipeLoop(_, _, _, _, _)

RECURSIVE PipeLoop_Halts(_, _, _, _, _)
\* the loop left as soon as a segment has ended the session
PipeLoop_Halts(st, commands, i, out, orc) ==
    IF i > Len(commands) \/ ~st.running
    THEN [st |-> st, out |-> out, raised |-> FALSE, exc |-> <<>>]
    ELSE Bind(execute(st, strip(commands[i]), orc), LAMBDA r :
             IF r.raised THEN r ELSE PipeLoop_Halts(r.st, commands, i + 1, r.out, orc))

RECURSIVE PipeLoop_Feeds(_, _, _, _, _)
\* the loop handing each segment the output of the one before it
PipeLoop_Feeds(st, commands, i, out, orc) ==
    IF i > Len(commands) THEN [st |-> st, out |-> out, raised |-> FALSE, exc |-> <<>>]
    ELSE Bind(execute(st, strip(commands[i]) \o (IF out = <<>> THEN <<>> ELSE <<" ">> \o out),
                      orc), LAMBDA r :
             IF r.raised THEN r ELSE PipeLoop_Feeds(r.st, commands, i + 1, r.out, orc))

\* the loop of LinuxTerminal._handle_pipe (the parse_command call whose
\* result the loop drops is not shown: it changes nothing)
PipeLoop(st, commands, i, out, orc) ==
    IF i > Len(commands) THEN [st |-> st, out |-> out, raised |-> FALSE, exc |-> <<>>]
    ELSE Bind(execute(st, strip(commands[i]), orc), LAMBDA r :
             IF r.raised THEN r ELSE PipeLoop(r.st, commands, i + 1, r.out, orc))

\* LinuxTerminal._handle_pipe
_handle_pipe(st, command_line, orc) ==
    PipeLoop(st, split(command_line, <<"|">>), 1, <<>>, orc)

\* the line split at the single sign whatever it holds
RedirectParts_SingleFirst(command_line) == split(command_line, <<">">>)

\* parts = command_line.split('>>') or command_line.split('>')
RedirectParts(command_line) ==
    IF Contains(command_line, <<">", ">">>) THEN split(command_line, <<">", ">">>)
    ELSE split(command_line, <<">">>)

\* LinuxTerminal._handle_redirect
_handle_redirect(st, command_line, orc) ==
    Bind(RedirectParts(command_line), LAMBDA parts :
        IF Len(parts) # 2
        THEN [st |-> st, out |-> error(<<"Invalid redirection syntax">>),
              raised |-> FALSE, exc |-> <<>>]
        ELSE WriteOutput(execute(st, strip(parts[1]), orc), strip(parts[2]),
                         Contains(command_line, <<">", ">">>)))

\* the routing with the signs looked for among the words of the line
Route_Words(st1, command_line, orc) ==
    Bind(Tokenize(command_line), LAMBDA tokens :
        IF \E i \in 1..Len(tokens) : tokens[i] = <<"|">>
        THEN _handle_pipe(st1, command_line, orc)
        ELSE IF \E i \in 1..Len(tokens) : tokens[i] \in { <<">">>, <<">", ">">> }
        THEN _handle_redirect(st1, command_line, orc)
        ELSE Dispatch(st1, command_line, orc))

\* the routing with the redirect sign looked for before the pipe sign
Route_RedirectFirst(st1, command_line, orc) ==
    IF Contains(command_line, <<">">>) \/ Contains(command_line, <<">", ">">>)
    THEN _handle_redirect(st1, command_line, orc)
    ELSE IF Contains(command_line, <<"|">>) THEN _handle_pipe(st1, command_line, orc)
    ELSE Dispatch(st1, command_line, orc)

\* the routing of execute, once the line is in the history
Route(st1, command_line, orc) ==
    IF Contains(command_line, <<"|">>) THEN _handle_pipe(st1, command_line, orc)
    ELSE IF Contains(command_line, <<">">>) \/ Contains(command_line, <<">", ">">>)
    THEN _handle_redirect(st1, command_line, orc)
    ELSE Dispatch(st1, command_line, orc)

\* execute with the line put in the history before it is looked at
execute_Records(st, line, orc) ==
    Bind(strip(line), LAMBDA command_line :
        IF command_line = <<>> \/ Head(command_line) = "#"
        THEN [st |-> [st EXCEPT !.history = Append(@, command_line)], out |-> <<>>,
              raised |-> FALSE, exc |-> <<>>]
        ELSE Route([st EXCEPT !.history = Append(@, command_line)], command_line, orc))

\* LinuxTerminal.execute
execute(st, line, orc) ==
    Bind(strip(line), LAMBDA command_line :
        IF command_line = <<>> \/ Head(command_line) = "#"
        THEN [st |-> st, out |-> <<>>, raised |-> FALSE, exc |-> <<>>]
        ELSE Route([st EXCEPT !.history = Append(@, command_line)], command_line, orc))

----------------------------------------------------------------------------
(* The main loop: LinuxTerminal.__init__ and LinuxTerminal.run             *)
(*                                                                         *)
(* lastLine, output, trace and escaped describe the line processed last;   *)
(* before is the session as it was when that line was read and host what   *)
(* the host answered while it was processed.                               *)

MaxHist == 4

\* the directories the process may be started in
StartDirs == { HOME }

\* the OLDPWD the process may inherit
StartEnviron == { <<>>, [k \in {"OLDPWD"} |-> Path(<<>>)] }

\* the regular files present at start
StartFiles ==
    [f \in { <<"home", "notes">>, <<"home", "log">> } |->
        IF f = <<"home", "notes">> THEN <<"old", "\n">> ELSE <<>>]

Quiet == [raises |-> FALSE, launchFails |-> FALSE, stdout |-> <<>>, stderr |-> <<>>]

Session ==
    [cwd |-> cwd, procCwd |-> procCwd, environ |-> environ, history |-> history,
     aliases |-> aliases, running |-> running, files |-> files, trace |-> <<>>]

\* LinuxTerminal.__init__, in a process started in one of cwds with one of
\* envs, and the session after the lines of one of hists
StartSession(cwds, envs, hists) ==
    /\ cwd \in cwds
    /\ procCwd = cwd
    /\ environ \in envs
    /\ history \in hists
    /\ aliases = DefaultAliases
    /\ running = TRUE
    /\ files = StartFiles
    /\ output = <<>>
    /\ trace = <<>>
    /\ escaped = FALSE
    /\ host = Quiet
    /\ before = [cwd |-> cwd, procCwd |-> cwd, environ |-> environ,
                 history |-> history, aliases |-> DefaultAliases, running |-> TRUE,
                 files |-> StartFiles, trace |-> <<>>]

\* the session before any line has been read
Start(cwds, envs, hists) ==
    /\ StartSession(cwds, envs, hists)
    /\ lastLine = <<>>

Init == Start(StartDirs, StartEnviron, { <<>> })

\* one turn of the loop in run: a line is read, executed, its output printed
Run(line, orc, limit) ==
    /\ running
    /\ Len(history) < limit
    /\ \E r \in { execute(Session, line, orc) } :
        /\ Len(r.st.history) <= limit
        /\ cwd' = r.st.cwd
        /\ procCwd' = r.st.procCwd
        /\ environ' = r.st.environ
        /\ history' = r.st.history
        /\ aliases' = r.st.aliases
        /\ running' = r.st.running
        /\ files' = r.st.files
        /\ trace' = r.st.trace
        /\ output' = (IF r.raised THEN error(<<"Error", ": ">> \o r.exc) ELSE r.out)
        /\ escaped' = r.raised
    /\ lastLine' = line
    /\ before' = Session
    /\ host' = orc

RunLine(line, orc) == Run(line, orc, MaxHist)

\* words joined by single spaces
Words(ws) == join(<<" ">>, ws)

\* the text is one ColorOutput.error line
IsError(text) == Len(text) >= 3 /\ text[1] = "<red>" /\ text[2] = "X "

\* the events of the last line that are handler calls or host launches
Dispatches == SelectSeq(trace, LAMBDA e : e.kind \in {"handler", "host"})

----------------------------------------------------------------------------
(* cd and the OLDPWD slot                                                  *)

CdArgs == { <<>>, <<"-">>, <<"..">>, <<"docs">>, <<"nx">>, <<"notes">>,
            <<"/", "c", "/", "vault">> }

CdLine(a) == IF a = <<>> THEN <<"cd">> ELSE Words(<< <<"cd">>, a >>)

TypeCd ==
    /\ running
    /\ \E a \in CdArgs : RunLine(CdLine(a), Quiet)

OldpwdValues == { <<"docs">> }

TypeExport ==
    /\ running
    /\ \E v \in OldpwdValues :
         RunLine(Words(<< <<"export">>, <<"OLDPWD", "=">> \o v >>), Quiet)

NextCd == TypeCd \/ TypeExport

SpecCd == Init /\ [][NextCd]_vars

\* the path string a cd argument names, as the session s stood
CdTarget(a, s) ==
    IF a = <<"-">>
    THEN normpath(IF "OLDPWD" \in DOMAIN s.environ THEN s.environ["OLDPWD"] ELSE s.cwd)
    ELSE to_windows(a, s.procCwd)

\* the line processed last was `cd a` and reached the cd handler
RanCd(a) ==
    /\ lastLine = CdLine(a)
    /\ Len(trace) = 1 /\ trace[1].kind = "handler" /\ trace[1].cmd = <<"cd">>

\* C1: a `cd <path>` whose resolved path does not exist or is not a directory
\* returns a non-empty error message and leaves cwd and the OLDPWD slot as
\* they were before the command.
C1_CdRejectedKeepsCwd ==
    \A a \in CdArgs \ { <<>> } :
        (RanCd(a) /\ ~isdir(CdTarget(a, before), before.procCwd))
        => /\ output # <<>>
           /\ IsError(output)
           /\ cwd = before.cwd
           /\ environ = before.environ

\* a cd to a regular file has been rejected right after a cd to a missing path
C1_Witness ==
    /\ RanCd(<<"notes">>)
    /\ ~isdir(CdTarget(<<"notes">>, before), before.procCwd)
    /\ exists(CdTarget(<<"notes">>, before), before.procCwd, before.files)
    /\ Len(history) >= 2 /\ history[Len(history) - 1] = CdLine(<<"nx">>)
    /\ IsError(output)

\* the cd handler ran for the last line and reported success
CdSucceeded == \E a \in CdArgs : RanCd(a) /\ output = <<>> /\ ~escaped

\* C2 (as claimed): a successful `cd D` from P sets cwd to D, and a `cd -`
\* executed immediately afterwards sets cwd back to P.
C2_CdThenBack ==
    [][ /\ (\A a \in CdArgs \ { <<>>, <<"-">> } :
              (RanCd(a)' /\ output' = <<>>) => cwd' = CdTarget(a, Session))
        /\ ((CdSucceeded /\ RanCd(<<"-">>)') => cwd' = before.cwd) ]_vars

----------------------------------------------------------------------------
(* Aliases                                                                 *)

InitPlain == Start(StartDirs, { <<>> }, { <<>> })

\* what the host prints for a command that writes one word
Spoken == [raises |-> FALSE, launchFails |-> FALSE, stdout |-> <<"out">>, stderr |-> <<>>]

\* the alias definitions typed: a and b name each other, gs names a host
\* command with an argument
AliasDefs ==
    { <<"a", "=", "b">>, <<"b", "=", "a">>,
      <<"gs", "=", "'", "git", " ", "status", "'">> }

TypeAlias ==
    /\ running
    /\ \E d \in AliasDefs : RunLine(Words(<< <<"alias">>, d >>), Quiet)

UseNames == { <<"a">>, <<"b">>, <<"gs">>, <<"ll">> }

UseArgs == { <<>>, <<"x">> }

\* the line "A T"
AliasedLine(n, t) == IF t = <<>> THEN n ELSE Words(<<n, t>>)

TypeAliased ==
    /\ running
    /\ \E n \in UseNames, t \in UseArgs : RunLine(AliasedLine(n, t), Spoken)

NextAlias == TypeAlias \/ TypeAliased

SpecAlias == InitPlain /\ [][NextAlias]_vars

\* the last line was "n t" and n was an alias when it was read
UsedAlias(n, t) == lastLine = AliasedLine(n, t) /\ HasAlias(before.aliases, n)

\* the text "R T" for the replacement R the alias n had
ExpandedText(n, t) == AliasedLine(AliasValue(before.aliases, n), t)

\* C3 (as claimed): executing "A T" selects the same handler with the same
\* argument tokens as executing "R T" with no further alias pass, and in the
\* host-fallback case the command line handed to the host is the expanded one.
C3_AliasSameDispatch ==
    \A n \in UseNames, t \in UseArgs :
        UsedAlias(n, t) =>
            /\ Len(Dispatches) = 1
            /\ Dispatches[1].cmd = Head(Tokenize(ExpandedText(n, t)))
            /\ Dispatches[1].args = Tail(Tokenize(ExpandedText(n, t)))
            /\ Dispatches[1].kind =
                 (IF Head(Tokenize(ExpandedText(n, t))) \in Commands
                  THEN "handler" ELSE "host")
            /\ (Dispatches[1].kind = "host"
                  => Dispatches[1].line = ExpandedText(n, t))

\* C4: one command goes through at most one alias substitution: when the
\* replacement itself begins with an alias name that name is not expanded
\* again, so mutually referring aliases are processed to the end, with the
\* first word of the replacement as the command.
C4_OneSubstitution ==
    /\ Cardinality({i \in 1..Len(trace) : trace[i].kind = "alias"}) <= Len(Dispatches)
    /\ (strip(lastLine) # <<>> => Len(Dispatches) >= 1)
    /\ \A n \in UseNames, t \in UseArgs :
         UsedAlias(n, t) =>
            /\ Len(trace) = 2
            /\ trace[1].kind = "alias" /\ trace[1].cmd = n
            /\ trace[2].kind \in {"handler", "host"}
            /\ trace[2].cmd = Head(Tokenize(ExpandedText(n, t)))
            /\ trace[2].args = Tail(Tokenize(ExpandedText(n, t)))

\* a was used while a named b and b named a: b was looked up on the host
C4_Witness ==
    /\ UsedAlias(<<"a">>, <<"x">>)
    /\ AliasValue(before.aliases, <<"a">>) = <<"b">>
    /\ HasAlias(before.aliases, <<"b">>)
    /\ AliasValue(before.aliases, <<"b">>) = <<"a">>
    /\ Len(trace) = 2 /\ trace[2].kind = "host" /\ trace[2].cmd = <<"b">>
    /\ trace[2].args = << <<"x">> >>
    /\ output = <<"out">>

----------------------------------------------------------------------------
(* The history list, pipes and redirection                                 *)

\* simple commands: one that prints, one the cd handler rejects, one typed
\* with blanks around it
SimpleLines ==
    { <<"echo", " ", "a">>, <<"cd", " ", "nx">>, <<" ", "echo", " ", "b", " ">> }

TypeSimple ==
    /\ running
    /\ \E l \in SimpleLines : RunLine(l, Quiet)

\* a blank line and a comment
SkippedLines == { <<" ">>, <<"#", " ", "x">> }

TypeSkipped ==
    /\ running
    /\ \E l \in SkippedLines : RunLine(l, Quiet)

PipedLines == { <<"echo", " ", "a", " ", "|", " ", "echo", " ", "b">> }

TypePiped ==
    /\ running
    /\ \E l \in PipedLines : RunLine(l, Quiet)

\* the commands whose output is redirected, and where to: a file that does
\* not exist yet, one with content, an empty one, and a directory
RedirectCmds == { <<"echo", " ", "a">>, <<"echo", " ", "b">> }

Targets == { <<"out">>, <<"notes">>, <<"log">>, <<"docs">> }

OverwriteLine(c, f) == c \o <<" ", ">", " ">> \o f

AppendLine(c, f) == c \o <<" ", ">", ">", " ">> \o f

TypeOverwrite ==
    /\ running
    /\ \E c \in RedirectCmds, f \in Targets : RunLine(OverwriteLine(c, f), Quiet)

TypeAppend ==
    /\ running
    /\ \E c \in RedirectCmds, f \in Targets : RunLine(AppendLine(c, f), Quiet)

NextShell == TypeSimple \/ TypeSkipped \/ TypePiped \/ TypeOverwrite \/ TypeAppend

SpecShell == InitPlain /\ [][NextShell]_vars

\* execute returns at once for the line: it is blank or a comment
IsSkipped(line) == strip(line) = <<>> \/ Head(strip(line)) = "#"

\* C5 (as claimed): the history consists of exactly the non-blank,
\* non-comment lines given to execute, in input order, whatever their kind;
\* each such line adds one entry and nothing else changes the list.
C5_HistoryIsTheInput ==
    history = IF IsSkipped(lastLine) THEN before.history
              ELSE Append(before.history, strip(lastLine))

\* the file a redirect target names, as the session stood before the line
TargetFile(f) == Locate(to_windows(f, before.procCwd), before.procCwd)

\* the target of the last line could be opened for writing
Writable(f) == can_open(to_windows(f, before.procCwd), before.procCwd)

\* what the command c of the last line returned: c executed where the
\* redirect handler executes it
CommandOutput(c) ==
    execute([before EXCEPT !.history = Append(@, strip(lastLine))], c, host).out

\* what the file held before the last line
HeldBefore(f) ==
    IF TargetFile(f) \in DOMAIN before.files THEN before.files[TargetFile(f)] ELSE <<>>

\* C7: after `cmd > file` with the write succeeding, the file holds exactly
\* the command's output followed by one newline, whatever it held before, and
\* the redirect returns an empty result.
C7_OverwriteHoldsOutput ==
    \A c \in RedirectCmds, f \in Targets :
        (lastLine = OverwriteLine(c, f) /\ Writable(f))
        => /\ TargetFile(f) \in DOMAIN files
           /\ files[TargetFile(f)] = CommandOutput(c) \o <<"\n">>
           /\ output = <<>>

\* a file that held text has been overwritten with the output of echo b
C7_Witness ==
    /\ lastLine = OverwriteLine(<<"echo", " ", "b">>, <<"notes">>)
    /\ HeldBefore(<<"notes">>) = <<"old", "\n">>
    /\ files[<<"home", "notes">>] = <<"b", "\n">>
    /\ output = <<>>

\* C8: `cmd >> file` appends the command's output plus one newline to what
\* the file held, so two successive appends of a then b to an initially empty
\* file leave it holding a, newline, b, newline.
C8_AppendKeepsContent ==
    /\ \A c \in RedirectCmds, f \in Targets :
         (lastLine = AppendLine(c, f) /\ Writable(f))
         => /\ TargetFile(f) \in DOMAIN files
            /\ files[TargetFile(f)] = HeldBefore(f) \o CommandOutput(c) \o <<"\n">>
            /\ output = <<>>
    /\ \A f \in Targets :
         ( /\ lastLine = AppendLine(<<"echo", " ", "b">>, f) /\ Writable(f)
           /\ Len(before.history) >= 2
           /\ before.history[Len(before.history) - 1] = AppendLine(<<"echo", " ", "a">>, f)
           /\ HeldBefore(f) = <<"a", "\n">> )
         => files[TargetFile(f)] = <<"a", "\n", "b", "\n">>

\* a then b have been appended to the file that was empty at the start
C8_Witness ==
    /\ lastLine = AppendLine(<<"echo", " ", "b">>, <<"log">>)
    /\ Len(before.history) = 2
    /\ before.history[1] = AppendLine(<<"echo", " ", "a">>, <<"log">>)
    /\ HeldBefore(<<"log">>) = <<"a", "\n">>
    /\ files[<<"home", "log">>] = <<"a", "\n", "b", "\n">>

----------------------------------------------------------------------------
(* The history command                                                     *)

MaxPast == 12

MaxAsk == 2

\* the history after n echo lines
Past(n) == [i \in 1..n |-> <<"echo", " ", ToString(i)>>]

InitHistory == Start(StartDirs, { <<>> }, { Past(n) : n \in 0..MaxPast })

\* the arguments given to history: none, counts below and above the default,
\* zero, a negative count and a word that is no number
HistoryArgs == { <<>>, <<"0">>, <<"1">>, <<"3">>, <<"11">>, <<"-1">>, <<"abc">> }

HistoryCmd(a) == IF a = <<>> THEN <<"history">> ELSE Words(<< <<"history">>, a >>)

\* how many history commands the session has been given
Asked == Cardinality({i \in 1..Len(history) : history[i][1] = "history"})

TypeHistory ==
    /\ running
    /\ Asked < MaxAsk
    /\ \E a \in HistoryArgs : Run(HistoryCmd(a), Quiet, MaxPast + MaxAsk)

NextHistory == TypeHistory

SpecHistory == InitHistory /\ [][NextHistory]_vars

\* the last m entries of the history, each on a line with its position
LastEntries(m) ==
    join(<<"\n">>, [i \in 1..m |->
                      HistoryLine(Len(history) - m + i, history[Len(history) - m + i])])

----------------------------------------------------------------------------
(* Commands the registry does not hold, and handlers that raise            *)

\* the directories the session is taken to: one it can enter and one the
\* process is refused
EnterArgs == { <<"docs">>, <<"/", "c", "/", "vault">> }

TypeEnter ==
    /\ running
    /\ \E a \in EnterArgs : RunLine(CdLine(a), Quiet)

HostLines == { <<"git", " ", "status">> }

\* what the host does with a command line: it cannot launch it, or the
\* command prints on its two streams
HostAnswers ==
    { [raises |-> FALSE, launchFails |-> TRUE, stdout |-> <<>>, stderr |-> <<>>] }
    \cup { [raises |-> FALSE, launchFails |-> FALSE, stdout |-> o, stderr |-> e] :
             o \in { <<>>, <<"out", "\n">> }, e \in { <<>>, <<"err", "\n">> } }

TypeHost ==
    /\ running
    /\ \E l \in HostLines, ans \in HostAnswers : RunLine(l, ans)

NextHost == TypeEnter \/ TypeHost

SpecHost == InitPlain /\ [][NextHost]_vars

\* the last line was handed to the host
RanOnHost(l) ==
    /\ lastLine = l
    /\ Len(trace) = 1 /\ trace[1].kind = "host" /\ trace[1].line = l

\* the host could start the command of the last line in the session's cwd
Launched == ~host.launchFails /\ can_chdir(before.cwd, before.procCwd)

\* C9 (as claimed): a command that is not registered never raises; it runs
\* on the host in the session's cwd and what is returned is the captured
\* standard output followed by standard error, or an error text.
C9_HostReturnsBoth ==
    \A l \in HostLines :
        lastLine = l
        => /\ ~escaped
           /\ RanOnHost(l)
           /\ trace[1].path = before.cwd
           /\ IF Launched THEN output = host.stdout \o host.stderr
              ELSE IsError(output)

\* C9 (amended): the same, the returned text being standard output followed
\* by standard error with the whitespace at its end removed.
C9_HostReturnsBothStripped ==
    \A l \in HostLines :
        lastLine = l
        => /\ ~escaped
           /\ RanOnHost(l)
           /\ trace[1].path = before.cwd
           /\ IF Launched THEN output = rstrip(host.stdout \o host.stderr)
              ELSE IsError(output)

\* a host command has printed on both streams in a directory the session
\* moved to
C9_Witness ==
    /\ RanOnHost(<<"git", " ", "status">>)
    /\ Launched
    /\ before.cwd = Path(<<"home", "docs">>)
    /\ host.stdout = <<"out", "\n">> /\ host.stderr = <<"err", "\n">>
    /\ output = <<"out", "\n", "err">>

\* lines whose handler may raise: ls, ls through an alias, and a cd into
\* the directory the process is refused
FailLines == { <<"ls">>, <<"ll", " ", "x">>, <<"cd", " ", "/", "c", "/", "vault">> }

Raising == [raises |-> TRUE, launchFails |-> FALSE, stdout |-> <<>>, stderr |-> <<>>]

TypeFailing ==
    /\ running
    /\ \E l \in FailLines, ans \in { Quiet, Raising } : RunLine(l, ans)

TypePwd ==
    /\ running
    /\ RunLine(<<"pwd">>, Quiet)

NextFail == TypeFailing \/ TypePwd

SpecFail == InitPlain /\ [][NextFail]_vars

\* the command name the last line resolved to
CommandName == parse_command(lastLine, before.aliases).cmd

\* the handler of the last line raised
HandlerRaised ==
    IF CommandName = <<"cd">>
    THEN ~can_chdir(CdTarget(<<"/", "c", "/", "vault">>, before), before.procCwd)
    ELSE host.raises

\* C10: when a registered command's handler raises, execute returns one
\* error line that starts with the command name, no exception leaves
\* execute, and running keeps the value it had.
C10_HandlerFailureIsReported ==
    \A l \in FailLines :
        (lastLine = l /\ HandlerRaised)
        => /\ ~escaped
           /\ IsError(output)
           /\ StartsWith(SubSeq(output, 3, Len(output)), CommandName \o <<": ">>)
           /\ ~Contains(output, <<"\n">>)
           /\ running = before.running

\* ls, reached through the alias ll, raised and the failure was reported
C10_Witness ==
    /\ lastLine = <<"ll", " ", "x">>
    /\ host.raises
    /\ CommandName = <<"ls">>
    /\ output = error(<<"ls", ": ", "failure">>)
    /\ ~escaped /\ running
    /\ Len(history) >= 2
    /\ history[Len(history) - 1] = <<"cd", " ", "/", "c", "/", "vault">>

----------------------------------------------------------------------------
(* The end of the session: exit, quit, end of input, interrupts            *)

\* the read of run's loop raises EOFError: an empty line is printed and
\* _exit is called, its text dropped
EndOfInput ==
    /\ running
    /\ running' = _exit(Session, <<>>).st.running
    /\ trace' = <<Event("eof", <<>>, <<>>, <<>>, NoPath, TRUE)>>
    /\ output' = <<"\n">>
    /\ lastLine' = <<>>
    /\ escaped' = FALSE
    /\ before' = Session
    /\ host' = Quiet
    /\ UNCHANGED <<cwd, procCwd, environ, history, aliases, files>>

\* the read of run's loop raises KeyboardInterrupt: ^C is printed and the
\* loop goes on
Interrupt ==
    /\ running
    /\ trace' = <<Event("interrupt", <<>>, <<>>, <<>>, NoPath, TRUE)>>
    /\ output' = <<"\n", "^C">>
    /\ lastLine' = <<>>
    /\ escaped' = FALSE
    /\ before' = Session
    /\ host' = Quiet
    /\ UNCHANGED <<cwd, procCwd, environ, history, aliases, running, files>>

ExitLines == { <<"exit">>, <<"quit">> }

TypeExit ==
    /\ running
    /\ \E l \in ExitLines : RunLine(l, Quiet)

\* exit made the name of an alias
TypeAliasExit ==
    /\ running
    /\ RunLine(<<"alias", " ", "exit", "=", "echo">>, Quiet)

\* lines that end in an error, with what the host does meanwhile: a handler
\* that raises, a command the host cannot launch, a redirection with two
\* targets, a redirection into a directory
TroubleLines ==
    { [line |-> <<"ls">>, orc |-> Raising],
      [line |-> <<"git", " ", "status">>,
       orc |-> [raises |-> FALSE, launchFails |-> TRUE, stdout |-> <<>>, stderr |-> <<>>]],
      [line |-> <<"echo", " ", "a", " ", ">", " ", "b", " ", ">", " ", "c">>, orc |-> Quiet],
      [line |-> <<"echo", " ", "a", " ", ">", " ", "docs">>, orc |-> Quiet] }

TypeTrouble ==
    /\ running
    /\ \E t \in TroubleLines : RunLine(t.line, t.orc)

NextLoop == TypeExit \/ TypeAliasExit \/ TypeTrouble \/ Interrupt \/ EndOfInput

SpecLoop == InitPlain /\ [][NextLoop]_vars

\* the exit handler ran while the last line was processed
ExitRan ==
    \E i \in 1..Len(trace) :
        trace[i].kind = "handler" /\ trace[i].cmd \in { <<"exit">>, <<"quit">> }

\* the last read met the end of the input
AtEndOfInput == Len(trace) = 1 /\ trace[1].kind = "eof"

\* the last read was interrupted
WasInterrupted == Len(trace) = 1 /\ trace[1].kind = "interrupt"

\* C11: running is false only if the exit/quit handler ran or end-of-input
\* was read; a handler failure, an unregistered command, a redirection
\* syntax error, a failed redirect write and an interrupt leave it true;
\* once false it never becomes true again.
C11_OnlyExitStops ==
    [][ /\ (~running' => (ExitRan' \/ AtEndOfInput'))
        /\ ((\E t \in TroubleLines : lastLine' = t.line /\ host' = t.orc /\ ~ExitRan')
              => (running' /\ IsError(output')))
        /\ (WasInterrupted' => running')
        /\ (~running => ~running') ]_vars

\* the session is still running after a failed redirect write that followed
\* a handler failure
C11_Witness ==
    /\ running
    /\ lastLine = <<"echo", " ", "a", " ", ">", " ", "docs">>
    /\ IsError(output)
    /\ Len(before.history) = 1 /\ before.history[1] = <<"ls">>

\* C12 (as claimed): whenever the line exit or quit is entered while the
\* session is running, whatever commands came before, running becomes false
\* and no further line is read; end-of-input has the same effect.
C12_ExitAlwaysStops ==
    [][ /\ running
        /\ ((lastLine' \in ExitLines \/ AtEndOfInput') => ~running') ]_vars

\* C12 (amended): the same for a line exit or quit whose word is not the
\* name of an alias when the line is read.
C12_ExitStopsUnlessAliased ==
    [][ /\ running
        /\ (((lastLine' \in ExitLines /\ ~HasAlias(aliases, lastLine'))
              \/ AtEndOfInput') => ~running') ]_vars

\* quit has ended a session that had processed other lines before
C12_Witness ==
    /\ ~running
    /\ lastLine = <<"quit">>
    /\ ExitRan
    /\ Len(history) >= 3

----------------------------------------------------------------------------
(* What changes the OLDPWD slot and the session cwd                        *)

\* the OLDPWD slot of an environment, <<>> when there is none
OldpwdSlot(env) == IF "OLDPWD" \in DOMAIN env THEN <<env["OLDPWD"]>> ELSE <<>>

\* C13 (as claimed, for the step after a successful cd): a successful cd
\* leaves in the OLDPWD slot the session cwd it started from, and the command
\* that follows, unless it is a successful cd itself, leaves the slot alone.
C13_OldpwdTracksCd ==
    [][ /\ (CdSucceeded' => OldpwdSlot(environ') = <<cwd>>)
        /\ ((CdSucceeded /\ ~CdSucceeded') => OldpwdSlot(environ') = OldpwdSlot(environ)) ]_vars

\* lines that reach the cd handler: directly, through the alias .., and as a
\* segment of a pipe
MoveLines ==
    { <<"cd", " ", "docs">>, <<"..">>,
      <<"cd", " ", "..", " ", "|", " ", "pwd">> }

TypeMove ==
    /\ running
    /\ \E l \in MoveLines : RunLine(l, Quiet)

\* lines that do not: other handlers, the host, a redirect
StayLines ==
    { <<"export", " ", "OLDPWD", "=", "docs">>, <<"unset", " ", "OLDPWD">>,
      <<"alias", " ", "a", "=", "b">>, <<"unalias", " ", "..">>,
      <<"history">>, <<"ls">>, <<"git", " ", "status">>,
      <<"pwd", " ", ">", " ", "out">> }

TypeStay ==
    /\ running
    /\ \E l \in StayLines : RunLine(l, Spoken)

NextFrame == TypeMove \/ TypeStay

SpecFrame == InitPlain /\ [][NextFrame]_vars

\* the cd handler ran while the last line was processed
CdRan == \E i \in 1..Len(trace) : trace[i].kind = "handler" /\ trace[i].cmd = <<"cd">>

\* C14: the session cwd changes only in a step in which the cd handler ran;
\* every other command leaves it unchanged.
C14_OnlyCdMovesCwd ==
    [][ /\ (cwd' # cwd => CdRan')
        /\ (lastLine' \in StayLines => (~CdRan' /\ cwd' = cwd)) ]_vars

\* a redirect of pwd has run in a directory a cd had entered, and the
\* session stayed there
C14_Witness ==
    /\ lastLine = <<"pwd", " ", ">", " ", "out">>
    /\ ~CdRan
    /\ before.cwd = Path(<<"home", "docs">>)
    /\ cwd = before.cwd
    /\ <<"home", "docs", "out">> \in DOMAIN files

----------------------------------------------------------------------------
(* The two path conversions, one after the other                           *)

MaxSegs == 3

\* the names a path is made of
SegNames == { "home", "docs", "..", "." }

\* the lists of at most MaxSegs names
SegLists == UNION { [1..n -> SegNames] : n \in 0..MaxSegs }

\* names with sep between them
Spell(segs, sep) == join(<<sep>>, [i \in 1..Len(segs) |-> <<segs[i]>>])

\* native paths that begin with a drive letter and :\
NativePaths == { <<d, ":", "\\">> \o Spell(segs, "\\") : d \in DriveLetters, segs \in SegLists }

\* virtual paths /x, /x/ and /x/rest
VirtualPaths ==
    { <<"/", d>> : d \in DriveLetters }
    \cup { <<"/", d, "/">> \o Spell(segs, "/") : d \in DriveLetters, segs \in SegLists }

\* a path string is picked; nothing has been done with it yet
InitPaths ==
    /\ StartSession(StartDirs, { <<>> }, { <<>> })
    /\ lastLine \in NativePaths \cup VirtualPaths

\* the native path picked is given to to_linux and the result to to_windows
ConvertNative ==
    /\ trace = <<>>
    /\ lastLine \in NativePaths
    /\ output' = to_windows_text(to_linux_text(lastLine, native_text(procCwd)),
                                 native_text(procCwd))
    /\ trace' = <<Event("to_linux", <<>>, <<>>, lastLine, NoPath, TRUE)>>
    /\ UNCHANGED <<cwd, procCwd, environ, history, aliases, running, files,
                   lastLine, escaped, before, host>>

\* the virtual path picked is given to to_windows and the result to to_linux
ConvertVirtual ==
    /\ trace = <<>>
    /\ lastLine \in VirtualPaths
    /\ output' = to_linux_text(to_windows_text(lastLine, native_text(procCwd)),
                               native_text(procCwd))
    /\ trace' = <<Event("to_windows", <<>>, <<>>, lastLine, NoPath, TRUE)>>
    /\ UNCHANGED <<cwd, procCwd, environ, history, aliases, running, files,
                   lastLine, escaped, before, host>>

NextPaths == ConvertNative \/ ConvertVirtual

SpecPaths == InitPaths /\ [][NextPaths]_vars

\* the last step converted a native path there and back
NativeConverted == Len(trace) = 1 /\ trace[1].kind = "to_linux"

\* the last step converted a virtual path there and back
VirtualConverted == Len(trace) = 1 /\ trace[1].kind = "to_windows"

\* posixpath.normpath of a virtual path that begins with one /
VirtualNormal(v) ==
    <<"/">> \o Spell(NormSegs([i \in 1..Len(split(v, <<"/">>)) |->
                                   Flat(split(v, <<"/">>)[i])], <<>>, TRUE), "/")

\* C15 (as claimed): for every native path p that begins with a drive letter
\* and :\, to_windows(to_linux(p)) is the normalized form of p.
C15_NativeRoundTrip ==
    NativeConverted => output = ntpath_normpath(lastLine)

\* C16 (as claimed): for every virtual path v of the form /x/..., x a drive
\* letter of either case and the rest possibly empty, to_linux(to_windows(v))
\* is the normalized form of v.
C16_VirtualRoundTrip ==
    VirtualConverted => output = VirtualNormal(lastLine)

\* a path string with its drive letter in upper case
UpperDrive(p) ==
    IF Len(p) >= 2 /\ p[2] = ":" THEN <<Upper(p[1])>> \o Tail(p) ELSE p

\* C15 (amended): for every native path p that begins with a drive letter
\* and :\, to_windows(to_linux(p)) is the normalized form of p with the
\* drive letter in upper case.
C15_NativeRoundTripUpper ==
    NativeConverted => output = UpperDrive(ntpath_normpath(lastLine))

\* a path with a lower-case drive letter and a .. has gone there and back
C15_Witness ==
    /\ NativeConverted
    /\ lastLine = <<"c", ":", "\\", "home", "\\", "..", "\\", "docs">>
    /\ output = <<"C", ":", "\\", "docs">>

----------------------------------------------------------------------------
(* Words and quotes                                                        *)

MaxAtoms == 5

\* what follows echo on the lines typed: letters, blanks and the two quotes
QuoteAtoms == { "a", " ", "\"", "'" }

\* echo "a b" c
QuotedExample == <<"echo", " ", "\"", "a", " ", "b", "\"", " ", "c">>

QuoteLines ==
    { <<"echo", " ">> \o t : t \in UNION { [1..n -> QuoteAtoms] : n \in 0..MaxAtoms } }
    \cup { QuotedExample }

\* one line is typed into a fresh session
TypeQuoted ==
    /\ running
    /\ \E l \in QuoteLines : Run(l, Quiet, 1)

NextQuote == TypeQuoted

SpecQuote == InitPlain /\ [][NextQuote]_vars

RECURSIVE OpenQuote(_, _)
\* the quote that is open after the first i atoms of s, "" if none is
OpenQuote(s, i) ==
    IF i = 0 THEN ""
    ELSE Bind(OpenQuote(s, i - 1), LAMBDA q :
            IF q = "" THEN (IF s[i] \in QuoteChars THEN s[i] ELSE "")
            ELSE IF s[i] = q THEN "" ELSE q)

\* atom i of s is a blank outside quotes
IsGap(s, i) == s[i] \in Whitespace /\ OpenQuote(s, i) = ""

\* atom i of s opens or closes a quoted group
IsQuoteMark(s, i) == OpenQuote(s, i) # OpenQuote(s, i - 1)

\* the atoms of s that are neither gaps nor quote marks
Content(s) ==
    Bind({i \in 1..Len(s) : ~IsGap(s, i) /\ ~IsQuoteMark(s, i)}, LAMBDA keep :
        [k \in 1..Cardinality(keep) |->
            s[CHOOSE i \in keep : Cardinality({j \in keep : j < i}) = k - 1]])

\* how many words s has: the places where a run of atoms that are no gaps begins
WordCount(s) ==
    Cardinality({i \in 1..Len(s) : ~IsGap(s, i) /\ (i = 1 \/ IsGap(s, i - 1))})

\* the command and the arguments the handler of the last line was called with
ParsedWords == <<trace[1].cmd>> \o trace[1].args

\* C17: parse_command splits a line into words honoring single and double
\* quotes, a quoted group with its blanks being part of one word (echo "a b" c
\* gives echo and the arguments "a b" and "c"); for a line with an
\* unterminated quote it does not raise and returns the plain whitespace
\* split.
C17_QuotesHonored ==
    \A l \in QuoteLines :
        lastLine = l
        => /\ ~escaped
           /\ Len(trace) = 1 /\ trace[1].kind = "handler"
           /\ IF OpenQuote(strip(l), Len(strip(l))) # ""
              THEN ParsedWords = split_ws(strip(l))
              ELSE /\ Len(ParsedWords) = WordCount(strip(l))
                   /\ join(<<>>, ParsedWords) = Content(strip(l))
           /\ (l = QuotedExample
                 => /\ trace[1].cmd = <<"echo">>
                    /\ trace[1].args = << <<"a", " ", "b">>, <<"c">> >>)

\* echo "a b" c has been parsed
C17_Witness ==
    /\ lastLine = QuotedExample
    /\ trace[1].args = << <<"a", " ", "b">>, <<"c">> >>
    /\ output = <<"a", " ", "b", " ", "c">>

----------------------------------------------------------------------------
(* Lines with a pipe sign                                                  *)

MaxSegments == 3

MaxPipeHist == 8

\* the segments typed around the pipe signs: handlers that print, one that
\* moves, one that ends the session, one that may raise, a host command, an
\* empty segment and a segment with a redirect of its own
PipeSegs ==
    { <<"echo", " ", "a">>, <<"pwd">>, <<"cd", " ", "docs">>, <<"exit">>, <<"ls">>,
      <<"git", " ", "status">>, <<>>,
      <<"echo", " ", "b", " ", ">", " ", "out">> }

\* s1 | s2 | ... | sn
PipeLine(segs) == join(<<" ", "|", " ">>, segs)

PipeLines ==
    { PipeLine(segs) : segs \in UNION { [1..n -> PipeSegs] : n \in 2..MaxSegments } }

\* one line with pipe signs is typed into a fresh session
TypeSegments ==
    /\ running
    /\ history = <<>>
    /\ \E l \in PipeLines, ans \in { Spoken, Raising } : Run(l, ans, MaxPipeHist)

NextPipe == TypeSegments

SpecPipe == Init /\ [][NextPipe]_vars

\* the last line held a pipe sign
WasPiped == lastLine \in PipeLines

\* the segments of the last line, as _handle_pipe cuts them
Segments == split(strip(lastLine), <<"|">>)

\* the session as _handle_pipe finds it: the line is in the history
Entered == [before EXCEPT !.history = Append(@, strip(lastLine))]

RECURSIVE InTurn(_, _)
\* the result of the i-th segment typed as a line of its own, in the session
\* the segments before it left
InTurn(segs, i) ==
    IF i = 0 THEN [st |-> Entered, out |-> <<>>, raised |-> FALSE, exc |-> <<>>]
    ELSE execute(InTurn(segs, i - 1).st, segs[i], host)

\* the segments of the last line that hold a command
Spoke == SelectSeq(Segments, LAMBDA s : strip(s) # <<>>)

\* the command of a segment: the segment, or what stands before its redirect
SegCommand(s) == split_ws(split(s, <<">">>)[1])

\* C18: for a line with a pipe sign every segment cut at the pipe signs is
\* executed exactly once as a full command, from left to right, with its own
\* words only, and the line returns what the last segment returned.
C18_SegmentsInTurn ==
    WasPiped
    => /\ ~escaped
       /\ Len(Dispatches) = Len(Spoke)
       /\ \A k \in 1..Len(Spoke) :
             /\ Dispatches[k].cmd = Head(SegCommand(Spoke[k]))
             /\ Dispatches[k].args = Tail(SegCommand(Spoke[k]))
       /\ Bind(InTurn(Segments, Len(Segments)), LAMBDA r :
             /\ output = r.out
             /\ trace = r.st.trace
             /\ cwd = r.st.cwd
             /\ history = r.st.history
             /\ files = r.st.files
             /\ running = r.st.running)

\* cd docs | echo a | pwd has printed the directory entered by its first
\* segment and nothing of the second
C18_Witness ==
    /\ lastLine = PipeLine(<< <<"cd", " ", "docs">>, <<"echo", " ", "a">>, <<"pwd">> >>)
    /\ Len(Dispatches) = 3
    /\ cwd = Path(<<"home", "docs">>)
    /\ output = Pwd(cwd)

\* the last line held a pipe sign and a redirect sign
PipedAndRedirected == WasPiped /\ Contains(lastLine, <<">">>)

\* the files opened for writing while the last line was processed
Writes == SelectSeq(trace, LAMBDA e : e.kind = "write")

\* the segments of the last line that hold a redirect sign
Redirecting == SelectSeq(Segments, LAMBDA s : Contains(s, <<">">>))

\* C19: a line holding both a pipe sign and a redirect sign is treated as a
\* pipe, and no destination file is written for the line or for any of its
\* segments.
C19_NoWriteInPipe ==
    PipedAndRedirected => (Writes = <<>> /\ files = before.files)

\* C19, amended: a line holding both a pipe sign and a redirect sign is cut at
\* the pipe signs first and never redirected as a whole; a segment that holds
\* a redirect sign is redirected on its own, so one file is written per such
\* segment, with the output of that segment's command only, and the line
\* returns what its last segment returned.
C19_PipeCutFirst ==
    PipedAndRedirected
    => /\ Len(Writes) = Len(Redirecting)
       /\ \A k \in 1..Len(Writes) :
             /\ Writes[k].line = Echo(Tail(SegCommand(Redirecting[k]))) \o <<"\n">>
             /\ Writes[k].path.segs[Len(Writes[k].path.segs)] = "out"
       /\ output = InTurn(Segments, Len(Segments)).out

\* echo b > out | echo a has written b to the file out and printed a
C19_Witness ==
    /\ lastLine = PipeLine(<< <<"echo", " ", "b", " ", ">", " ", "out">>, <<"echo", " ", "a">> >>)
    /\ Len(Writes) = 1
    /\ files[<<"home", "out">>] = <<"b", "\n">>
    /\ output = <<"a">>

----------------------------------------------------------------------------
(* Aliases and the pipe and redirect signs                                 *)

\* alias p='echo a | echo b' and alias w='echo a > out'
SignedAliasLines ==
    { <<"alias", " ", "p", "=", "'", "echo", " ", "a", " ", "|", " ", "echo", " ", "b", "'">>,
      <<"alias", " ", "w", "=", "'", "echo", " ", "a", " ", ">", " ", "out", "'">> }

\* an alias definition whose replacement holds a sign is typed
TypeSignedAlias ==
    /\ running
    /\ history = <<>>
    /\ \E l \in SignedAliasLines : Run(l, Spoken, MaxPipeHist)

SignedNames == { <<"p">>, <<"w">> }

\* the name just defined is typed
TypeSignedUse ==
    /\ running
    /\ \E n \in SignedNames :
        /\ HasAlias(aliases, n)
        /\ Run(n, Spoken, MaxPipeHist)

NextSigned == TypeSegments \/ TypeSignedAlias \/ TypeSignedUse

SpecSigned == Init /\ [][NextSigned]_vars

\* no replacement text of the alias table holds a pipe or a redirect sign
PlainReplacements ==
    \A i \in 1..Len(aliases) :
        ~Contains(aliases[i].value, <<"|">>) /\ ~Contains(aliases[i].value, <<">">>)

\* the alias p has been defined by a line cut at its pipe sign
SignedAliasDefined ==
    /\ HasAlias(aliases, <<"p">>)
    /\ AliasValue(aliases, <<"p">>) = <<"echo">>
    /\ lastLine = <<"p">>
    /\ output = <<>>

----------------------------------------------------------------------------
(* Redirect lines: malformed ones, both operators, failing writes          *)

\* > out, echo a >, echo a > out > log, >> out, echo a >>, >
MalformedLines ==
    { <<">", " ", "out">>, <<"echo", " ", "a", " ", ">">>,
      <<"echo", " ", "a", " ", ">", " ", "out", " ", ">", " ", "log">>,
      <<">", ">", " ", "out">>, <<"echo", " ", "a", " ", ">", ">">>, <<">">> }

TypeMalformed ==
    /\ running
    /\ \E l \in MalformedLines : RunLine(l, Spoken)

\* the commands on the left of the operator: printing handlers, one that may
\* raise, one that ends the session, one for the host
LeftCmds ==
    { <<"echo", " ", "a">>, <<"pwd">>, <<"ls">>, <<"exit">>, <<"git", " ", "status">> }

\* destinations: a new file, a file with content, a directory
Destinations == { <<"out">>, <<"notes">>, <<"docs">> }

TypeRedirect ==
    /\ running
    /\ \E c \in LeftCmds, f \in Destinations, ans \in { Spoken, Raising } :
        \/ RunLine(OverwriteLine(c, f), ans)
        \/ RunLine(AppendLine(c, f), ans)

\* echo a >> out > log and echo a > out >> log
BothLines ==
    { <<"echo", " ", "a", " ", ">", ">", " ", "out", " ", ">", " ", "log">>,
      <<"echo", " ", "a", " ", ">", " ", "out", " ", ">", ">", " ", "log">> }

TypeBoth ==
    /\ running
    /\ \E l \in BothLines : RunLine(l, Spoken)

NextRedirect == TypeMalformed \/ TypeRedirect \/ TypeBoth

SpecRedirect == InitPlain /\ [][NextRedirect]_vars

\* C21: a redirection line whose split on the operator does not yield exactly
\* two non-empty parts (no command, no destination, or more than one
\* operator) returns a syntax error, executes no command and writes no file.
C21_MalformedRejected ==
    lastLine \in MalformedLines
    => /\ IsError(output)
       /\ trace = <<>>
       /\ files = before.files

\* the last line was a redirect of a command to a destination
WasRedirect ==
    \/ lastLine \in BothLines
    \/ \E c \in LeftCmds, f \in Destinations :
          lastLine \in { OverwriteLine(c, f), AppendLine(c, f) }

\* the event the last line ended with
LastEvent == trace[Len(trace)]

----------------------------------------------------------------------------
(* Empty command words, blank lines and comments                           *)

\* "", '' and "" a
EmptyWordLines ==
    { <<"\"", "\"">>, <<"'", "'">>, <<"\"", "\"", " ", "a">> }

TypeEmptyWord ==
    /\ running
    /\ \E l \in EmptyWordLines : RunLine(l, Spoken)

\* alias e= : an alias with an empty replacement
TypeEmptyAlias ==
    /\ running
    /\ RunLine(<<"alias", " ", "e", "=">>, Quiet)

\* the alias e is typed
TypeUseEmpty ==
    /\ running
    /\ HasAlias(aliases, <<"e">>)
    /\ RunLine(<<"e">>, Spoken)

\* the empty line, blanks, comments, a comment after blanks
BlankLines ==
    { <<>>, <<" ">>, <<" ", "\t", " ">>, <<"#">>, <<"#", " ", "x">>,
      <<"#", "exit">>, <<" ", "#", " ", "cd", " ", "docs">> }

TypeBlank ==
    /\ running
    /\ \E l \in BlankLines : RunLine(l, Spoken)

NextBlank == TypeEmptyWord \/ TypeEmptyAlias \/ TypeUseEmpty \/ TypeBlank \/ TypeMove

SpecBlank == InitPlain /\ [][NextBlank]_vars

\* tokenizing the last line gave an empty command word
EmptyCommand ==
    /\ ~IsSkipped(lastLine)
    /\ ~Contains(lastLine, <<"|">>) /\ ~Contains(lastLine, <<">">>)
    /\ parse_command(strip(lastLine), before.aliases).cmd = <<>>

\* C23: when tokenizing a non-blank line yields an empty command word (the
\* line "", or a line whose first word is an alias with an empty
\* replacement), dispatch produces no output and has no side effect: no
\* handler is invoked and no host command is run.
C23_EmptyCommandIsNoOp ==
    EmptyCommand => (output = <<>> /\ Dispatches = <<>>)

----------------------------------------------------------------------------
(* The alias table: defaults overridden and removed                        *)

MaxAliasHist == 3

\* a default alias, a name that is no alias at start, and the name of the
\* command that removes aliases
TableNames == { <<"ll">>, <<"a">>, <<"unalias">> }

\* the replacement typed, and the replacement stored for it
TableValues ==
    { [typed |-> <<"pwd">>, stored |-> <<"pwd">>],
      [typed |-> <<"'", "echo", " ", "x", "'">>, stored |-> <<"echo", " ", "x">>] }

UnaliasLine(n) == <<"unalias", " ">> \o n

DefineLine(n, v) == <<"alias", " ">> \o n \o <<"=">> \o v

TypeUnalias ==
    /\ running
    /\ \E n \in TableNames : Run(UnaliasLine(n), Spoken, MaxAliasHist)

TypeDefine ==
    /\ running
    /\ \E n \in TableNames, v \in TableValues : Run(DefineLine(n, v.typed), Spoken, MaxAliasHist)

\* a line starting with the name, alone or with an argument
TypeName ==
    /\ running
    /\ \E n \in TableNames, t \in { <<>>, <<"y">> } :
          Run(AliasedLine(n, t), Spoken, MaxAliasHist)

\* alias with no argument, and a command that has nothing to do with aliases
TypeList ==
    /\ running
    /\ \E l \in { <<"alias">>, <<"cd", " ", "docs">> } : Run(l, Spoken, MaxAliasHist)

NextTable == TypeUnalias \/ TypeDefine \/ TypeName \/ TypeList

SpecTable == InitPlain /\ [][NextTable]_vars

\* the first word of the last line
FirstWord == split_first(strip(lastLine))[1]

\* the last line was expanded: its first word was replaced by text
ExpandedWith(text) ==
    /\ trace # <<>>
    /\ trace[1].kind = "alias"
    /\ trace[1].cmd = FirstWord
    /\ trace[1].line = text

\* the alias pass left the last line alone
NotExpanded == \A i \in 1..Len(trace) : trace[i].kind # "alias"

\* the table with n removed, the others in place
Without(al, n) == SelectSeq(al, LAMBDA e : e.name # n)

\* the table with n defined as v: in its place if it was there, last if not
With(al, n, v) ==
    IF \E i \in 1..Len(al) : al[i].name = n
    THEN [i \in 1..Len(al) |-> IF al[i].name = n THEN [name |-> n, value |-> v] ELSE al[i]]
    ELSE al \o << [name |-> n, value |-> v] >>

\* what the last line does to the table and what the table does to it, when
\* the words alias and unalias are read as commands
TableRules ==
    /\ \A n \in TableNames :
          /\ lastLine = UnaliasLine(n)
                => (aliases = Without(before.aliases, n) /\ ~HasAlias(aliases, n))
          /\ \A v \in TableValues :
                lastLine = DefineLine(n, v.typed)
                   => (aliases = With(before.aliases, n, v.stored)
                       /\ AliasValue(aliases, n) = v.stored)
    /\ lastLine = <<"alias">>
          => (/\ aliases = before.aliases
              /\ output = join(<<"\n">>, [i \in 1..Len(aliases) |-> AliasLine(aliases[i])]))
    /\ lastLine = <<"cd", " ", "docs">> => aliases = before.aliases

\* a line is expanded exactly when its first word is in the table, and then
\* with the replacement the table holds
ExpansionRule ==
    lastLine # <<>>
    => IF HasAlias(before.aliases, FirstWord)
       THEN ExpandedWith(AliasRewrite(strip(lastLine), before.aliases))
            /\ StartsWith(trace[1].line, AliasValue(before.aliases, FirstWord))
       ELSE NotExpanded

\* C25: default aliases are ordinary entries: after unalias n of any alias n
\* a later line starting with n is no longer expanded, after alias n=v a later
\* line starting with n is expanded with v, nothing restores a removed or
\* overridden default, and alias with no argument lists the entries in
\* definition order.
C25_TableIsMutable == TableRules /\ ExpansionRule

\* C25, amended: the same, as long as the word alias or unalias the line
\* starts with is not itself an alias at that time (an alias named unalias
\* replaces the command, and unalias unalias then removes nothing).
C25_TableIsMutableUnlessShadowed ==
    /\ ExpansionRule
    /\ (lastLine # <<>> => (HasAlias(before.aliases, FirstWord) \/ TableRules))

\* the default ll has been removed and is typed: it is not expanded and the
\* table starts with la
C25_Witness ==
    /\ lastLine = <<"ll">>
    /\ ~HasAlias(aliases, <<"ll">>)
    /\ aliases[1].name = <<"la">>
    /\ NotExpanded
    /\ Len(Dispatches) = 1 /\ Dispatches[1].kind = "host"

----------------------------------------------------------------------------
(* Error texts                                                             *)

\* the message of an error text, between the marker and the reset
Message(text) == SubSeq(text, 3, Len(text) - 1)

\* C26: every error text the core produces (handler failure, cd rejection,
\* redirection syntax error, failed redirect write, failed host launch,
\* loop-level failure) is a single line that carries the error marker and is
\* prefixed with the name of the originating command.
C26_ErrorsNameTheCommand ==
    (IsError(output) /\ lastLine # <<>>)
    => /\ ~Contains(output, <<"\n">>)
       /\ StartsWith(Message(output), FirstWord \o <<": ">>)

----------------------------------------------------------------------------
(* Signs inside quotes                                                     *)

\* echo "a > b", echo 'a >> b', echo "a | b", echo "a | b" > out
QuotedSignLines ==
    { <<"echo", " ", "\"", "a", " ", ">", " ", "b", "\"">>,
      <<"echo", " ", "'", "a", " ", ">", ">", " ", "b", "'">>,
      <<"echo", " ", "\"", "a", " ", "|", " ", "b", "\"">>,
      <<"echo", " ", "\"", "a", " ", "|", " ", "b", "\"", " ", ">", " ", "out">> }

TypeQuotedSign ==
    /\ running
    /\ \E l \in QuotedSignLines : Run(l, Spoken, MaxPipeHist)

NextQuotedSign == TypeSignedAlias \/ TypeSignedUse \/ TypeQuotedSign

SpecQuotedSign == Init /\ [][NextQuotedSign]_vars

\* the last line held a sign, and only between quotes
SignInQuotes == lastLine \in QuotedSignLines \cup SignedAliasLines

\* the words of a piece of the line, as parse_command finds them
PieceWords(piece) == Tokenize(strip(piece))

\* C27: routing is a substring test on the whole line made before
\* tokenization: a pipe or redirect sign that occurs only inside a quoted
\* argument still sends the line down the pipe or redirect path, and the
\* quoted text is cut at the sign.
C27_QuotedSignsRoute ==
    SignInQuotes
    => IF Contains(lastLine, <<"|">>)
       THEN /\ Len(Segments) = 2
            /\ Len(Dispatches) = 2
            /\ \A k \in 1..2 :
                  Dispatches[k].cmd = Head(PieceWords(split(Segments[k], <<">">>)[1]))
            /\ Dispatches[1].args = Tail(PieceWords(Segments[1]))
       ELSE /\ Len(Dispatches) = 1
            /\ Dispatches[1].cmd = Head(PieceWords(RedirectParts(lastLine)[1]))
            /\ Dispatches[1].args = Tail(PieceWords(RedirectParts(lastLine)[1]))
            /\ Len(Writes) = 1
            /\ Writes[1].path.segs[Len(Writes[1].path.segs)]
                  = Flat(strip(RedirectParts(lastLine)[2]))

\* echo "a > b" has run echo with the word "a and has opened the file b"
C27_Witness ==
    /\ lastLine = <<"echo", " ", "\"", "a", " ", ">", " ", "b", "\"">>
    /\ Dispatches[1].args = << <<"\"", "a">> >>
    /\ Writes[1].line = <<"\"", "a", "\n">>
    /\ Writes[1].path = Path(<<"home", "b\"">>)

----------------------------------------------------------------------------
(* What still happens on the line that ends the session                    *)

\* exit | echo a, echo a | quit | pwd, exit | git status, exit > out,
\* quit >> notes, exit > docs, exit
ExitingLines ==
    { <<"exit", " ", "|", " ", "echo", " ", "a">>,
      <<"echo", " ", "a", " ", "|", " ", "quit", " ", "|", " ", "pwd">>,
      <<"exit", " ", "|", " ", "git", " ", "status">>,
      <<"exit", " ", ">", " ", "out">>,
      <<"quit", " ", ">", ">", " ", "notes">>,
      <<"exit", " ", ">", " ", "docs">>,
      <<"exit">> }

TypeExiting ==
    /\ running
    /\ \E l \in ExitingLines : RunLine(l, Spoken)

NextAfterExit == TypeExiting \/ TypeSimple \/ TypeMove \/ EndOfInput

SpecAfterExit == InitPlain /\ [][NextAfterExit]_vars

\* an event of the trace is a handler call, a host launch or a file write
IsCall(e) == e.kind \in { "handler", "host", "write" }

\* C28: once the running flag is false no handler and no host command is
\* invoked any more: the segments after an exit or quit segment of a pipe
\* line, and the file write of exit > file, do not take place.
C28_NothingAfterExit ==
    \A i \in 1..Len(trace) :
        (trace[i].kind = "handler" /\ trace[i].cmd \in { <<"exit">>, <<"quit">> })
        => \A j \in (i + 1)..Len(trace) : ~IsCall(trace[j])

\* the line that ran exit was processed to its end
LineCompleted ==
    IF Contains(lastLine, <<"|">>)
    THEN /\ Len(Dispatches) = Len(Spoke)
         /\ \A k \in 1..Len(Spoke) : Dispatches[k].cmd = Head(SegCommand(Spoke[k]))
    ELSE Contains(lastLine, <<">">>)
         => /\ Len(Writes) = 1
            /\ Writes[1].line = info(<<"Goodbye!">>) \o <<"\n">>
            /\ (Writes[1].ok => Writes[1].path.segs \in DOMAIN files)

\* C28, amended: a line is only ever read while the running flag is true,
\* but the line on which exit or quit ran is processed to its end: the
\* segments after the exit segment of a pipe line are executed and the file
\* of exit > file is written.
C28_NoLineAfterExit ==
    /\ before.running
    /\ (ExitRan => (~running /\ LineCompleted))

\* exit > out has ended the session and written the farewell to out
C28_Witness ==
    /\ lastLine = <<"exit", " ", ">", " ", "out">>
    /\ ~running
    /\ files[<<"home", "out">>] = info(<<"Goodbye!">>) \o <<"\n">>

----------------------------------------------------------------------------
(* The session cwd and the process directory                               *)

\* C29: after every completed command the session cwd and the process
\* working directory denote the same directory, also after a cd whose change
\* of the process directory fails once the session field is assigned.
C29_CwdIsProcessDirectory ==
    Locate(cwd, procCwd) = procCwd.segs

----------------------------------------------------------------------------
(* cd - and the pair (cwd, OLDPWD)                                         *)

\* the OLDPWD slot of session s names an existing directory
OldpwdIsDirectory(s) ==
    /\ "OLDPWD" \in DOMAIN s.environ
    /\ isdir(normpath(s.environ["OLDPWD"]), s.procCwd)

\* the last line was cd - in a session whose OLDPWD named an existing
\* directory
SwappedBack == RanCd(<<"-">>) /\ OldpwdIsDirectory(before)

\* C30: cd - is an involution on the pair (cwd, OLDPWD): when OLDPWD names an
\* existing directory cd - swaps cwd and OLDPWD, so two consecutive cd -
\* restore both; when the slot is unset cd - succeeds, leaves cwd unchanged
\* and sets OLDPWD to cwd.
C30_CdDashSwaps ==
    [][ RanCd(<<"-">>)'
        => /\ OldpwdIsDirectory(Session)
                => /\ cwd' = environ["OLDPWD"]
                   /\ OldpwdSlot(environ') = <<cwd>>
           /\ (SwappedBack /\ OldpwdIsDirectory(Session))
                => /\ cwd' = before.cwd
                   /\ OldpwdSlot(environ') = OldpwdSlot(before.environ)
           /\ "OLDPWD" \notin DOMAIN environ
                => /\ output' = <<>>
                   /\ ~escaped'
                   /\ cwd' = cwd
                   /\ OldpwdSlot(environ') = <<cwd>> ]_vars

\* the session in which only the OLDPWD slot and cd - are used
MaxDashHist == 6

DashLines == { CdLine(<<"-">>), <<"unset", " ", "OLDPWD">> }

TypeDash ==
    /\ running
    /\ \E l \in DashLines : Run(l, Quiet, MaxDashHist)

TypePutOldpwd ==
    /\ running
    /\ \E v \in OldpwdValues :
         Run(Words(<< <<"export">>, <<"OLDPWD", "=">> \o v >>), Quiet, MaxDashHist)

TypeGo ==
    /\ running
    /\ \E a \in { <<"docs">>, <<"..">> } : Run(CdLine(a), Quiet, MaxDashHist)

NextDash == TypeDash \/ TypePutOldpwd \/ TypeGo

SpecDash == Init /\ [][NextDash]_vars

====
